---- MODULE Spec2Model ----
(***************************************************************************)
(* Model of applications/services/cli/cli_commands.c: the log relay        *)
(* command (cli_command_log and its sink callback), the live monitor       *)
(* (cli_command_top) and the column paginator of cli_command_help.         *)
(*                                                                         *)
(* A byte of the log stream is identified by its position in the stream    *)
(* the logging subsystem emits (1, 2, 3, ...).  A sequence of bytes is     *)
(* kept as a list of runs <<lo, hi>> of consecutive positions, so that the *)
(* ring of CLI_COMMAND_LOG_RING_SIZE bytes is modelled at its real size.   *)
(***************************************************************************)
EXTENDS Integers, Sequences, FiniteSets, TLC

\* ------------------------------------------------------------------ bounds
\* Number of records the logging subsystem emits in a relay behaviour.
MaxWrites == 2
\* Number of frames of the live monitor a behaviour follows.
MaxFrames == 2
\* Number of threads a snapshot of the thread table holds.
MaxThreads == 2
\* Number of entries of the command tree.
MaxCommands == 8

\* ------------------------------------------------------- program constants
CLI_COMMAND_LOG_RING_SIZE == 2048
CLI_COMMAND_LOG_BUFFER_SIZE == 64
\* FuriWaitForever: the timeout that never elapses, 0xFFFFFFFF, written as
\* the 32-bit value -1
FuriWaitForever == -1

\* (variant: the receive waits without a timeout)
RelayReceiveForever == FuriWaitForever

\* furi_stream_buffer_receive(ring, buffer, CLI_COMMAND_LOG_BUFFER_SIZE, 50)
RelayReceiveTimeout == 50

\* Sizes of the records the logging subsystem emits.
PayloadSizes == {1, CLI_COMMAND_LOG_RING_SIZE}
\* Sizes of the records emitted in the level specification.
LevelPayloadSizes == {1}

VARIABLES
    pc,                 \* position of the session thread in cli_command_log
    args,               \* the argument string of the command
    level,              \* the global log level (furi_log_get_level)
    previous_level,     \* local of cli_command_log
    restore_log_level,  \* local of cli_command_log
    registered,         \* the session's log handler is registered
    ringAlive,          \* the stream buffer is allocated and not yet freed
    ringCap,            \* its capacity
    ring,               \* its content, a run list
    buffer,             \* the bytes the last receive put in buffer[], a run list
    ret,                \* local of the relay loop
    interrupt,          \* the cancellation token
    out,                \* the bytes written to the session output, a run list
    budget,             \* records the logging subsystem may still emit
    emitted,            \* stream position of the last byte emitted
    accepted,           \* history: bytes the ring accepted, a run list
    regStart,           \* history: stream position when the sink was added
    regEnd,             \* history: stream position when the sink was removed
    recvAfterInt,       \* history: receives started since the token was set
    setLevelCalls,      \* history: furi_log_set_level calls of the handler
    addHandlerCalls,    \* history: furi_log_add_handler calls of the handler
    removeHandlerCalls, \* history: furi_log_remove_handler calls of the handler
    freeCalls,          \* history: furi_stream_buffer_free calls of the handler
    level0,             \* history: the global level when the command started
    interfered,         \* history: another party set the level since the command started
    helpPrinted,        \* history: the level help text was printed
    stalled,            \* history: a producer had to wait in the callback
    lastSend,           \* history: <<size, free, accepted>> of the last send
    writeAfterRead,     \* history: a record was sent after a read removed bytes
    stale,              \* history: bytes left in the rings earlier sessions freed
    externalLevel,      \* history: the level another party last set since the command started
    tpc,                \* position of the session thread in cli_command_top
    interval,           \* local of cli_command_top
    thread_list,        \* the thread list of the last furi_thread_enumerate
    listAlive,          \* the thread list is allocated and not yet freed
    frames,             \* history: frames rendered
    sleeps,             \* history: furi_delay_ms calls
    framesAfterInt,     \* history: frames rendered since the token was set
    sleepsAfterInt,     \* history: furi_delay_ms calls since the token was set
    listFreeCalls,      \* history: furi_thread_list_free calls
    tout,               \* the output of cli_command_top, a sequence of <<item, n>>
    hpc,                \* position of the session thread in cli_command_help
    commands,           \* cli->commands in key order: the Hidden flag of each entry
    commands_count,     \* local of cli_command_help
    commands_per_column, \* local of cli_command_help
    iterators,          \* local of cli_command_help: position of each column's cursor
    row,                \* local r of the print loop
    col,                \* local c of the print loop
    starts,             \* history: the cursors' positions before the print loop
    printed             \* the labels printed, a sequence of <<row, column, position>>

relayVars == <<pc, args, level, previous_level, restore_log_level, registered,
               ringAlive, ringCap, ring, buffer, ret, interrupt, out, budget,
               emitted, accepted, regStart, regEnd, recvAfterInt, setLevelCalls,
               addHandlerCalls, removeHandlerCalls, freeCalls, level0,
               interfered, helpPrinted, stalled, lastSend, writeAfterRead,
               stale, externalLevel>>

topVars == <<tpc, interval, thread_list, listAlive, frames, sleeps,
            framesAfterInt, sleepsAfterInt, listFreeCalls, tout>>

helpVars == <<hpc, commands, commands_count, commands_per_column, iterators,
              row, col, starts, printed>>

vars == <<relayVars, topVars, helpVars>>

Min(a, b) == IF a < b THEN a ELSE b

\* --------------------------------------------------------------- run lists
RunLen(r) == r[2] - r[1] + 1

RECURSIVE RunsLen(_)
RunsLen(rs) == IF rs = <<>> THEN 0 ELSE RunLen(Head(rs)) + RunsLen(Tail(rs))

\* rs followed by the bytes of run r
RunsAppend(rs, r) ==
    IF r[2] < r[1] THEN rs
    ELSE IF rs # <<>> /\ rs[Len(rs)][2] + 1 = r[1]
         THEN [rs EXCEPT ![Len(rs)] = <<rs[Len(rs)][1], r[2]>>]
         ELSE Append(rs, r)

RECURSIVE RunsConcat(_, _)
RunsConcat(a, b) ==
    IF b = <<>> THEN a ELSE RunsConcat(RunsAppend(a, Head(b)), Tail(b))

\* the first n bytes of rs
RECURSIVE RunsTake(_, _)
RunsTake(rs, n) ==
    IF n <= 0 \/ rs = <<>> THEN <<>>
    ELSE LET r == Head(rs) IN
         IF RunLen(r) <= n
         THEN <<r>> \o RunsTake(Tail(rs), n - RunLen(r))
         ELSE << <<r[1], r[1] + n - 1>> >>

\* rs without its first n bytes
RECURSIVE RunsDrop(_, _)
RunsDrop(rs, n) ==
    IF n <= 0 \/ rs = <<>> THEN rs
    ELSE LET r == Head(rs) IN
         IF RunLen(r) <= n
         THEN RunsDrop(Tail(rs), n - RunLen(r))
         ELSE << <<r[1] + n, r[2]>> >> \o Tail(rs)

\* the runs are in stream order and do not overlap
RunsOrdered(rs) ==
    /\ \A i \in 1..Len(rs) : rs[i][1] <= rs[i][2]
    /\ \A i \in 1..(Len(rs) - 1) : rs[i][2] < rs[i + 1][1]

\* every byte of rs lies in lo..hi
RunsWithin(rs, lo, hi) == \A i \in 1..Len(rs) : lo <= rs[i][1] /\ rs[i][2] <= hi

\* ------------------------------------------------------------- log levels
Levels == {"FuriLogLevelError", "FuriLogLevelWarn", "FuriLogLevelInfo",
           "FuriLogLevelDebug", "FuriLogLevelTrace"}

LevelNames == {"default", "error", "warn", "info", "debug", "trace"}

\* furi_log_level_from_string: whether the name is a level name
furi_log_level_from_string_ok(str) == str \in LevelNames

\* furi_log_level_from_string: the level of a level name
furi_log_level_from_string(str) ==
    CASE str = "default" -> "FuriLogLevelDefault"
      [] str = "error" -> "FuriLogLevelError"
      [] str = "warn" -> "FuriLogLevelWarn"
      [] str = "info" -> "FuriLogLevelInfo"
      [] str = "debug" -> "FuriLogLevelDebug"
      [] str = "trace" -> "FuriLogLevelTrace"

\* furi_log_set_level: the level in force after the call
furi_log_set_level(l) == IF l = "FuriLogLevelDefault" THEN "FuriLogLevelInfo" ELSE l

\* ---------------------------------------------------------- stream buffer
\* furi_stream_buffer_send: bytes accepted by a send of size bytes when
\* used of cap bytes are held (what fits; with a timeout the sender first
\* waits for room)
furi_stream_buffer_send_accepts(used, cap, size) == Min(size, cap - used)

\* furi_stream_buffer_send: the sender is suspended
furi_stream_buffer_send_waits(used, cap, size, timeout) ==
    timeout > 0 /\ cap - used < size

\* furi_stream_buffer_receive: bytes returned when used bytes are held
furi_stream_buffer_receive_count(used, max) == Min(used, max)

\* furi_stream_buffer_receive: with nothing held the call returns empty
\* once the timeout has elapsed
furi_stream_buffer_receive_times_out(timeout) == timeout # FuriWaitForever

\* ------------------------------------------------------------ environment
\* cli_cmd_interrupt_received(cli): the cancellation token, set once
cli_cmd_interrupt_received == interrupt

\* The interrupt byte arrives on the session input.
SetInterrupt ==
    /\ ~interrupt
    /\ interrupt' = TRUE
    /\ UNCHANGED <<topVars, helpVars, stale, externalLevel, pc, args, level, previous_level, restore_log_level,
                   registered, ringAlive, ringCap, ring, buffer, ret, out,
                   budget, emitted, accepted, regStart, regEnd, recvAfterInt,
                   setLevelCalls, addHandlerCalls, removeHandlerCalls,
                   freeCalls, level0, interfered, helpPrinted, stalled,
                   lastSend, writeAfterRead>>

\* Another party (the settings) sets the global log level.
ExternalSetLevel(l) ==
    /\ furi_log_set_level(l) # level
    /\ level' = furi_log_set_level(l)
    /\ interfered' = (interfered \/ pc # "idle")
    /\ externalLevel' = (IF pc = "idle" THEN externalLevel
                         ELSE furi_log_set_level(l))
    /\ UNCHANGED <<topVars, helpVars, stale, pc, args, previous_level, restore_log_level, registered,
                   ringAlive, ringCap, ring, buffer, ret, interrupt, out,
                   budget, emitted, accepted, regStart, regEnd, recvAfterInt,
                   setLevelCalls, addHandlerCalls, removeHandlerCalls,
                   freeCalls, level0, helpPrinted, stalled, lastSend,
                   writeAfterRead>>

\* ------------------------------------------------- cli_command_log_tx_callback
\* furi_stream_buffer_send(context, buffer, size, timeout) on the session's
\* ring; the record is the stream bytes lo .. lo + size - 1
furi_stream_buffer_send(lo, size, timeout) ==
    LET used == RunsLen(ring)
        acc == furi_stream_buffer_send_accepts(used, ringCap, size)
    IN /\ ring' = RunsAppend(ring, <<lo, lo + acc - 1>>)
       /\ accepted' = RunsAppend(accepted, <<lo, lo + acc - 1>>)
       /\ stalled' = (stalled \/ furi_stream_buffer_send_waits(used, ringCap, size, timeout))
       /\ lastSend' = <<size, ringCap - used, acc>>
       /\ writeAfterRead' = (writeAfterRead \/ out # <<>> \/ (pc = "write" /\ ret > 0))

\* (variant: the callback sends with the receive timeout)
TxSendTimeoutWaiting == RelayReceiveTimeout

\* furi_stream_buffer_send(context, buffer, size, 0): the timeout
TxSendTimeout == 0

cli_command_log_tx_callback(lo, size) ==
    furi_stream_buffer_send(lo, size, TxSendTimeout)

\* The logging subsystem emits a record of size bytes: every registered
\* handler's callback is called with it; with no handler it is dropped.
Emit(size) ==
    /\ budget > 0
    /\ budget' = budget - 1
    /\ emitted' = emitted + size
    /\ IF registered
       THEN cli_command_log_tx_callback(emitted + 1, size)
       ELSE UNCHANGED <<ring, accepted, stalled, lastSend, writeAfterRead>>
    /\ UNCHANGED <<topVars, helpVars, stale, externalLevel, pc, args, level, previous_level, restore_log_level,
                   registered, ringAlive, ringCap, buffer, ret, interrupt, out,
                   regStart, regEnd, recvAfterInt, setLevelCalls,
                   addHandlerCalls, removeHandlerCalls, freeCalls, level0,
                   interfered, helpPrinted>>

\* ------------------------------------------------------------ cli_command_log
\* (variant: the ring is allocated at twice the size)
RingAllocDouble == 2 * CLI_COMMAND_LOG_RING_SIZE

\* furi_stream_buffer_alloc(CLI_COMMAND_LOG_RING_SIZE, 1)
RingAllocSize == CLI_COMMAND_LOG_RING_SIZE

\* (variant: the loop does not look at the token)
RelayLoopCondAlways == TRUE

\* (variant: the ring is not allocated afresh, the last one is used again)
RingAllocReused(old) == old

\* furi_stream_buffer_alloc: the content of the ring allocated, where old is
\* what the memory of the last ring holds
RingAllocContent(old) == <<>>

\* (variant: the ring is freed with the sink still registered)
LogTeardownFree == "free"

\* line 403: the first step after the loop
LogTeardownFirst == "remove"

\* (variant: the loop goes on until the ring is drained)
RelayLoopCondDrain == ~cli_cmd_interrupt_received \/ ring # <<>>

\* while(!cli_cmd_interrupt_received(cli))
RelayLoopCond == ~cli_cmd_interrupt_received

\* (variant: the receive asks for as many bytes as the ring holds)
RelayReceiveMaxRing == CLI_COMMAND_LOG_RING_SIZE

\* furi_stream_buffer_receive(ring, buffer, CLI_COMMAND_LOG_BUFFER_SIZE, 50)
RelayReceiveMax == CLI_COMMAND_LOG_BUFFER_SIZE

\* (variant: the last byte read is not written)
RelayWrittenShort(buf, n) == RunsTake(buf, n - 1)

\* (variant: the whole of buffer[] is written whatever ret is)
RelayWrittenWhole(buf, n) == buf

\* cli_write(cli, buffer, ret): the bytes written
RelayWritten(buf, n) == RunsTake(buf, n)

\* (variant: the level is not written back)
LogRestoreLevelSkipped(restore, prev, cur) == cur

\* if(restore_log_level) furi_log_set_level(previous_level): the level after
LogRestoreLevel(restore, prev, cur) ==
    IF restore THEN furi_log_set_level(prev) ELSE cur

\* (variant: the handler goes on after the help text)
LogRejectFallsThrough == "add"

\* if(!cli_command_log_level_set_from_string(args)) { free; return; }
LogRejectNextPc == "done"

\* cli_command_log_level_set_from_string(level): the result is ok
cli_command_log_level_set_from_string(str, ok) ==
    /\ ok = furi_log_level_from_string_ok(str)
    /\ IF ok
       THEN /\ level' = furi_log_set_level(furi_log_level_from_string(str))
            /\ setLevelCalls' = setLevelCalls + 1
            /\ UNCHANGED helpPrinted
       ELSE /\ helpPrinted' = TRUE
            /\ UNCHANGED <<level, setLevelCalls>>

\* lines 372-375: the ring is allocated, the current level remembered
LogEnter ==
    /\ pc = "idle"
    /\ pc' = "parse"
    /\ ringAlive' = TRUE
    /\ ringCap' = RingAllocSize
    /\ ring' = RingAllocContent(ring)
    /\ previous_level' = level
    /\ restore_log_level' = FALSE
    /\ level0' = level
    /\ UNCHANGED <<topVars, helpVars, stale, externalLevel, args, level, registered, buffer, ret, interrupt, out,
                   budget, emitted, accepted, regStart, regEnd, recvAfterInt,
                   setLevelCalls, addHandlerCalls, removeHandlerCalls,
                   freeCalls, interfered, helpPrinted, stalled, lastSend,
                   writeAfterRead>>

\* line 377: no argument
LogNoArg ==
    /\ pc = "parse"
    /\ args = ""
    /\ pc' = "add"
    /\ UNCHANGED <<topVars, helpVars, stale, externalLevel, args, level, previous_level, restore_log_level, registered,
                   ringAlive, ringCap, ring, buffer, ret, interrupt, out,
                   budget, emitted, accepted, regStart, regEnd, recvAfterInt,
                   setLevelCalls, addHandlerCalls, removeHandlerCalls,
                   freeCalls, level0, interfered, helpPrinted, stalled,
                   lastSend, writeAfterRead>>

\* lines 377-383: a level name, the level is overridden
LogLevelSet ==
    /\ pc = "parse"
    /\ args # ""
    /\ cli_command_log_level_set_from_string(args, TRUE)
    /\ restore_log_level' = TRUE
    /\ pc' = "add"
    /\ UNCHANGED <<topVars, helpVars, stale, externalLevel, args, previous_level, registered, ringAlive, ringCap, ring,
                   buffer, ret, interrupt, out, budget, emitted, accepted,
                   regStart, regEnd, recvAfterInt, addHandlerCalls,
                   removeHandlerCalls, freeCalls, level0, interfered, stalled,
                   lastSend, writeAfterRead>>

\* lines 377-381: not a level name, the help is printed and the ring freed
LogLevelReject ==
    /\ pc = "parse"
    /\ args # ""
    /\ cli_command_log_level_set_from_string(args, FALSE)
    /\ ringAlive' = FALSE
    /\ freeCalls' = freeCalls + 1
    /\ pc' = LogRejectNextPc
    /\ UNCHANGED <<topVars, helpVars, stale, externalLevel, args, previous_level, restore_log_level, registered,
                   ringCap, ring, buffer, ret, interrupt, out, budget, emitted,
                   accepted, regStart, regEnd, recvAfterInt, addHandlerCalls,
                   removeHandlerCalls, level0, interfered, stalled, lastSend,
                   writeAfterRead>>

\* lines 385-397: furi_log_add_handler(log_handler)
LogAddHandler ==
    /\ pc = "add"
    /\ registered' = TRUE
    /\ addHandlerCalls' = addHandlerCalls + 1
    /\ regStart' = emitted
    /\ pc' = "loop"
    /\ UNCHANGED <<topVars, helpVars, stale, externalLevel, args, level, previous_level, restore_log_level, ringAlive,
                   ringCap, ring, buffer, ret, interrupt, out, budget, emitted,
                   accepted, regEnd, recvAfterInt, setLevelCalls,
                   removeHandlerCalls, freeCalls, level0, interfered,
                   helpPrinted, stalled, lastSend, writeAfterRead>>

\* line 398: the loop condition
LogLoopCheck ==
    /\ pc = "loop"
    /\ pc' = IF RelayLoopCond THEN "body" ELSE LogTeardownFirst
    /\ UNCHANGED <<topVars, helpVars, stale, externalLevel, args, level, previous_level, restore_log_level, registered,
                   ringAlive, ringCap, ring, buffer, ret, interrupt, out,
                   budget, emitted, accepted, regStart, regEnd, recvAfterInt,
                   setLevelCalls, addHandlerCalls, removeHandlerCalls,
                   freeCalls, level0, interfered, helpPrinted, stalled,
                   lastSend, writeAfterRead>>

\* line 399: furi_stream_buffer_receive is called and the thread waits in it
LogReceiveStart ==
    /\ pc = "body"
    /\ pc' = "recv"
    /\ recvAfterInt' = IF interrupt THEN recvAfterInt + 1 ELSE recvAfterInt
    /\ UNCHANGED <<topVars, helpVars, stale, externalLevel, args, level, previous_level, restore_log_level, registered,
                   ringAlive, ringCap, ring, buffer, ret, interrupt, out,
                   budget, emitted, accepted, regStart, regEnd, setLevelCalls,
                   addHandlerCalls, removeHandlerCalls, freeCalls, level0,
                   interfered, helpPrinted, stalled, lastSend, writeAfterRead>>

\* line 399: the receive returns the bytes held, at most RelayReceiveMax
LogReceiveData ==
    /\ pc = "recv"
    /\ ring # <<>>
    /\ LET n == furi_stream_buffer_receive_count(RunsLen(ring), RelayReceiveMax)
       IN /\ ret' = n
          /\ buffer' = RunsTake(ring, n)
          /\ ring' = RunsDrop(ring, n)
    /\ pc' = "write"
    /\ UNCHANGED <<topVars, helpVars, stale, externalLevel, args, level, previous_level, restore_log_level, registered,
                   ringAlive, ringCap, interrupt, out, budget, emitted,
                   accepted, regStart, regEnd, recvAfterInt, setLevelCalls,
                   addHandlerCalls, removeHandlerCalls, freeCalls, level0,
                   interfered, helpPrinted, stalled, lastSend, writeAfterRead>>

\* line 399: nothing arrived in RelayReceiveTimeout ticks; buffer[] is not written
LogReceiveTimeout ==
    /\ pc = "recv"
    /\ ring = <<>>
    /\ furi_stream_buffer_receive_times_out(RelayReceiveTimeout)
    /\ ret' = 0
    /\ pc' = "write"
    /\ UNCHANGED <<topVars, helpVars, stale, externalLevel, args, level, previous_level, restore_log_level, registered,
                   ringAlive, ringCap, ring, buffer, interrupt, out, budget,
                   emitted, accepted, regStart, regEnd, recvAfterInt,
                   setLevelCalls, addHandlerCalls, removeHandlerCalls,
                   freeCalls, level0, interfered, helpPrinted, stalled,
                   lastSend, writeAfterRead>>

\* line 400: cli_write(cli, buffer, ret)
LogWrite ==
    /\ pc = "write"
    /\ out' = RunsConcat(out, RelayWritten(buffer, ret))
    /\ pc' = "loop"
    /\ UNCHANGED <<topVars, helpVars, stale, externalLevel, args, level, previous_level, restore_log_level, registered,
                   ringAlive, ringCap, ring, buffer, ret, interrupt, budget,
                   emitted, accepted, regStart, regEnd, recvAfterInt,
                   setLevelCalls, addHandlerCalls, removeHandlerCalls,
                   freeCalls, level0, interfered, helpPrinted, stalled,
                   lastSend, writeAfterRead>>

\* line 403: furi_log_remove_handler(log_handler)
LogRemoveHandler ==
    /\ pc = "remove"
    /\ registered' = FALSE
    /\ removeHandlerCalls' = removeHandlerCalls + 1
    /\ regEnd' = emitted
    /\ pc' = "restore"
    /\ UNCHANGED <<topVars, helpVars, stale, externalLevel, args, level, previous_level, restore_log_level, ringAlive,
                   ringCap, ring, buffer, ret, interrupt, out, budget, emitted,
                   accepted, regStart, recvAfterInt, setLevelCalls,
                   addHandlerCalls, freeCalls, level0, interfered, helpPrinted,
                   stalled, lastSend, writeAfterRead>>

\* lines 405-408: the remembered level is written back after an override
LogRestore ==
    /\ pc = "restore"
    /\ level' = LogRestoreLevel(restore_log_level, previous_level, level)
    /\ setLevelCalls' = IF restore_log_level THEN setLevelCalls + 1 ELSE setLevelCalls
    /\ pc' = "free"
    /\ UNCHANGED <<topVars, helpVars, stale, externalLevel, args, previous_level, restore_log_level, registered,
                   ringAlive, ringCap, ring, buffer, ret, interrupt, out,
                   budget, emitted, accepted, regStart, regEnd, recvAfterInt,
                   addHandlerCalls, removeHandlerCalls, freeCalls, level0,
                   interfered, helpPrinted, stalled, lastSend, writeAfterRead>>

\* line 410: furi_stream_buffer_free(ring), and the handler returns
LogFree ==
    /\ pc = "free"
    /\ ringAlive' = FALSE
    /\ freeCalls' = freeCalls + 1
    /\ pc' = "done"
    /\ UNCHANGED <<topVars, helpVars, stale, externalLevel, args, level, previous_level, restore_log_level, registered,
                   ringCap, ring, buffer, ret, interrupt, out, budget, emitted,
                   accepted, regStart, regEnd, recvAfterInt, setLevelCalls,
                   addHandlerCalls, removeHandlerCalls, level0, interfered,
                   helpPrinted, stalled, lastSend, writeAfterRead>>

LogStep ==
    \/ LogEnter
    \/ LogNoArg
    \/ LogLevelSet
    \/ LogLevelReject
    \/ LogAddHandler
    \/ LogLoopCheck
    \/ LogReceiveStart
    \/ LogReceiveData
    \/ LogReceiveTimeout
    \/ LogWrite
    \/ LogRemoveHandler
    \/ LogRestore
    \/ LogFree

\* ------------------------------------------------------------ cli_command_top
\* The values of the interval argument (1000 when none is given).
Intervals == {-1, 0, 1000}

\* The thread tables furi_thread_enumerate may find: lists of distinct threads.
Snapshots ==
    {t \in UNION {[1..n -> 1..MaxThreads] : n \in 0..MaxThreads} :
        \A i, j \in DOMAIN t : i # j => t[i] # t[j]}

\* (variant: the monitor loop does not look at the token)
TopLoopCondAlways == TRUE

\* while(!cli_cmd_interrupt_received(cli))
TopLoopCond == ~cli_cmd_interrupt_received

\* (variant: the escape sequences are printed for a positive interval only)
TopAnsiPositive(i) == i > 0

\* if(interval): the escape sequences are printed
TopAnsi(i) == i # 0

\* if(interval > 0) furi_delay_ms(interval); else break;
TopRepeats(i) == i > 0

\* one row per thread of the list, in the list's order
TopRows(list) == [i \in 1..Len(list) |-> <<"row", list[i]>>]

\* lines 584-627: what one frame prints for the thread list
TopFrameOutput(i, list) ==
    (IF TopAnsi(i) THEN << <<"origin", 0>> >> ELSE <<>>)
    \o << <<"stats", Len(list)>>, <<"heap", 0>>, <<"header", 0>> >>
    \o TopRows(list)

\* lines 574-579: the interval is read, the screen cleared and the cursor
\* hidden, the thread list allocated
TopEnter ==
    /\ tpc = "idle"
    /\ tout' = IF TopAnsi(interval)
               THEN tout \o << <<"clear", 0>>, <<"hide", 0>> >>
               ELSE tout
    /\ listAlive' = TRUE
    /\ tpc' = "loop"
    /\ UNCHANGED <<relayVars, helpVars, listFreeCalls, interval, thread_list, frames, sleeps,
                   framesAfterInt, sleepsAfterInt>>

\* line 580: the loop condition
TopLoopCheck ==
    /\ tpc = "loop"
    /\ TopLoopCond => frames < MaxFrames
    /\ tpc' = IF TopLoopCond THEN "frame" ELSE "free"
    /\ UNCHANGED <<relayVars, helpVars, listFreeCalls, interval, thread_list, listAlive,
                   frames, sleeps, framesAfterInt, sleepsAfterInt, tout>>

\* lines 581-627: a snapshot is taken and the frame printed
TopFrame ==
    /\ tpc = "frame"
    /\ \E list \in Snapshots :
          /\ thread_list' = list
          /\ tout' = tout \o TopFrameOutput(interval, list)
    /\ frames' = frames + 1
    /\ framesAfterInt' = IF interrupt THEN framesAfterInt + 1 ELSE framesAfterInt
    /\ tpc' = "after"
    /\ UNCHANGED <<relayVars, helpVars, listFreeCalls, interval, listAlive, sleeps,
                   sleepsAfterInt>>

\* lines 629-630: furi_delay_ms(interval)
TopDelay ==
    /\ tpc = "after"
    /\ TopRepeats(interval)
    /\ sleeps' = sleeps + 1
    /\ sleepsAfterInt' = IF interrupt THEN sleepsAfterInt + 1 ELSE sleepsAfterInt
    /\ tpc' = "loop"
    /\ UNCHANGED <<relayVars, helpVars, listFreeCalls, interval, thread_list, listAlive,
                   frames, framesAfterInt, tout>>

\* lines 631-633: break
TopBreak ==
    /\ tpc = "after"
    /\ ~TopRepeats(interval)
    /\ tpc' = "free"
    /\ UNCHANGED <<relayVars, helpVars, listFreeCalls, interval, thread_list, listAlive,
                   frames, sleeps, framesAfterInt, sleepsAfterInt, tout>>

\* line 635: furi_thread_list_free(thread_list)
TopFree ==
    /\ tpc = "free"
    /\ listAlive' = FALSE
    /\ listFreeCalls' = listFreeCalls + 1
    /\ tpc' = "show"
    /\ UNCHANGED <<relayVars, helpVars, interval, thread_list, frames, sleeps,
                   framesAfterInt, sleepsAfterInt, tout>>

\* line 637: the cursor is shown, and the handler returns
TopShowCursor ==
    /\ tpc = "show"
    /\ tout' = IF TopAnsi(interval) THEN Append(tout, <<"show", 0>>) ELSE tout
    /\ tpc' = "done"
    /\ UNCHANGED <<relayVars, helpVars, listFreeCalls, interval, thread_list, listAlive,
                   frames, sleeps, framesAfterInt, sleepsAfterInt>>

TopStep ==
    \/ TopEnter
    \/ TopLoopCheck
    \/ TopFrame
    \/ TopDelay
    \/ TopBreak
    \/ TopFree
    \/ TopShowCursor

\* cli_command_top is not running
InitTopIdle ==
    /\ tpc = "idle"
    /\ interval = 1000
    /\ thread_list = <<>>
    /\ listAlive = FALSE
    /\ frames = 0
    /\ sleeps = 0
    /\ framesAfterInt = 0
    /\ sleepsAfterInt = 0
    /\ listFreeCalls = 0
    /\ tout = <<>>

\* ----------------------------------------------------------- cli_command_help
\* const size_t columns = 3
HelpColumns == 3

\* commands_per_column = (commands_count / columns) + (commands_count % columns)
HelpRows(count) == (count \div HelpColumns) + (count % HelpColumns)

\* CliCommandTree_end_p: the cursor at position p (from 0) of n entries is at the end
CliCommandTree_end_p(p, n) == p >= n

\* CliCommandTree_next: the cursor after one step; at the end it stays there
CliCommandTree_next(p, n) == IF CliCommandTree_end_p(p, n) THEN p ELSE p + 1

\* k times CliCommandTree_next
RECURSIVE HelpAdvance(_, _, _)
HelpAdvance(p, k, n) ==
    IF k = 0 THEN p ELSE HelpAdvance(CliCommandTree_next(p, n), k - 1, n)

\* the entry at position p (from 0) has CliCommandFlagHidden
HelpHidden(p) == commands[p + 1]

\* lines 212-222: the entries without CliCommandFlagHidden are counted
HelpCount ==
    /\ hpc = "idle"
    /\ commands_count' = Cardinality({i \in DOMAIN commands : ~commands[i]})
    /\ hpc' = "iter"
    /\ UNCHANGED <<relayVars, topVars, commands, commands_per_column,
                   iterators, row, col, starts, printed>>

\* lines 225-232: the rows per column, and one cursor per column moved
\* c * commands_per_column entries on
HelpIterators ==
    /\ hpc = "iter"
    /\ commands_per_column' = HelpRows(commands_count)
    /\ iterators' = [c \in 0..(HelpColumns - 1) |->
                        HelpAdvance(0, c * HelpRows(commands_count), Len(commands))]
    /\ starts' = iterators'
    /\ row' = 0
    /\ col' = 0
    /\ hpc' = "print"
    /\ UNCHANGED <<relayVars, topVars, commands, commands_count, printed>>

\* lines 235-246: the cell of row r and column c: the entry under the
\* column's cursor is printed unless it is hidden, and the cursor moves on
HelpCell ==
    /\ hpc = "print"
    /\ row < commands_per_column
    /\ LET p == iterators[col]
           n == Len(commands)
       IN IF ~CliCommandTree_end_p(p, n)
          THEN /\ printed' = IF ~HelpHidden(p)
                             THEN Append(printed, <<row, col, p>>)
                             ELSE printed
               /\ iterators' = [iterators EXCEPT ![col] = CliCommandTree_next(p, n)]
          ELSE UNCHANGED <<printed, iterators>>
    /\ col' = IF col + 1 < HelpColumns THEN col + 1 ELSE 0
    /\ row' = IF col + 1 < HelpColumns THEN row ELSE row + 1
    /\ UNCHANGED <<relayVars, topVars, hpc, commands, commands_count,
                   commands_per_column, starts>>

\* lines 235, 249-255: the rows are printed, the handler returns
HelpReturn ==
    /\ hpc = "print"
    /\ ~(row < commands_per_column)
    /\ hpc' = "done"
    /\ UNCHANGED <<relayVars, topVars, commands, commands_count,
                   commands_per_column, iterators, row, col, starts, printed>>

HelpStep ==
    \/ HelpCount
    \/ HelpIterators
    \/ HelpCell
    \/ HelpReturn

\* cli_command_help is not running, the command tree is empty
InitHelpIdle ==
    /\ hpc = "idle"
    /\ commands = <<>>
    /\ commands_count = 0
    /\ commands_per_column = 0
    /\ iterators = [c \in 0..(HelpColumns - 1) |-> 0]
    /\ row = 0
    /\ col = 0
    /\ starts = [c \in 0..(HelpColumns - 1) |-> 0]
    /\ printed = <<>>

\* ------------------------------------------------------- relay specification
RelayArgs == {"", "debug", "bogus"}

\* cli_command_log is not running
InitLogIdle ==
    /\ pc = "idle"
    /\ previous_level = "FuriLogLevelInfo"
    /\ restore_log_level = FALSE
    /\ registered = FALSE
    /\ ringAlive = FALSE
    /\ ringCap = 0
    /\ ring = <<>>
    /\ buffer = <<>>
    /\ ret = 0
    /\ interrupt = FALSE
    /\ out = <<>>
    /\ emitted = 0
    /\ accepted = <<>>
    /\ regStart = 0
    /\ regEnd = 0
    /\ recvAfterInt = 0
    /\ setLevelCalls = 0
    /\ addHandlerCalls = 0
    /\ removeHandlerCalls = 0
    /\ freeCalls = 0
    /\ interfered = FALSE
    /\ helpPrinted = FALSE
    /\ stalled = FALSE
    /\ lastSend = <<0, 0, 0>>
    /\ writeAfterRead = FALSE
    /\ stale = <<>>
    /\ externalLevel = "none"

InitCommon ==
    /\ InitTopIdle
    /\ InitHelpIdle
    /\ InitLogIdle

InitRelay ==
    /\ InitCommon
    /\ args \in RelayArgs
    /\ level = "FuriLogLevelInfo"
    /\ level0 = level
    /\ budget = MaxWrites

NextRelay ==
    \/ LogStep
    \/ SetInterrupt
    \/ \E size \in PayloadSizes : Emit(size)

Spec == InitRelay /\ [][NextRelay]_vars

\* ------------------------------------------------------- level specification
LevelArgs == {""} \cup LevelNames \cup {"bogus", "?"}

InitLevel ==
    /\ InitCommon
    /\ args \in LevelArgs
    /\ level \in Levels
    /\ level0 = level
    /\ budget = MaxWrites

NextLevel ==
    \/ LogStep
    \/ SetInterrupt
    \/ \E size \in LevelPayloadSizes : Emit(size)
    \/ \E l \in Levels \cup {"FuriLogLevelDefault"} : ExternalSetLevel(l)

SpecLevel == InitLevel /\ [][NextLevel]_vars

\* ----------------------------------------------------- monitor specification
InitTop ==
    /\ InitLogIdle
    /\ InitHelpIdle
    /\ args = ""
    /\ level = "FuriLogLevelInfo"
    /\ level0 = level
    /\ budget = 0
    /\ tpc = "idle"
    /\ interval \in Intervals
    /\ thread_list = <<>>
    /\ listAlive = FALSE
    /\ frames = 0
    /\ sleeps = 0
    /\ framesAfterInt = 0
    /\ sleepsAfterInt = 0
    /\ listFreeCalls = 0
    /\ tout = <<>>

NextTop ==
    \/ TopStep
    \/ SetInterrupt

SpecTop == InitTop /\ [][NextTop]_vars

\* -------------------------------------------------------- help specification
\* The command trees: every placement of hidden entries among at most
\* MaxCommands entries.
CommandTrees == UNION {[1..n -> BOOLEAN] : n \in 0..MaxCommands}

InitHelp ==
    /\ InitLogIdle
    /\ InitTopIdle
    /\ args = ""
    /\ level = "FuriLogLevelInfo"
    /\ level0 = level
    /\ budget = 0
    /\ hpc = "idle"
    /\ commands \in CommandTrees
    /\ commands_count = 0
    /\ commands_per_column = 0
    /\ iterators = [c \in 0..(HelpColumns - 1) |-> 0]
    /\ row = 0
    /\ col = 0
    /\ starts = [c \in 0..(HelpColumns - 1) |-> 0]
    /\ printed = <<>>

NextHelp == HelpStep

SpecHelp == InitHelp /\ [][NextHelp]_vars

\* ---------------------------------------------------- liveness specification
\* One command is dispatched: cli_command_log, or cli_command_top ("none"
\* marks the handler that is not called).  The session thread is scheduled
\* as long as it can take a step: a receive returns with data or when its
\* timeout elapses, a sleep ends.
InitLive ==
    /\ InitHelpIdle
    /\ level = "FuriLogLevelInfo"
    /\ level0 = level
    /\ previous_level = "FuriLogLevelInfo"
    /\ restore_log_level = FALSE
    /\ registered = FALSE
    /\ ringAlive = FALSE
    /\ ringCap = 0
    /\ ring = <<>>
    /\ buffer = <<>>
    /\ ret = 0
    /\ interrupt = FALSE
    /\ out = <<>>
    /\ emitted = 0
    /\ accepted = <<>>
    /\ regStart = 0
    /\ regEnd = 0
    /\ recvAfterInt = 0
    /\ setLevelCalls = 0
    /\ addHandlerCalls = 0
    /\ removeHandlerCalls = 0
    /\ freeCalls = 0
    /\ interfered = FALSE
    /\ helpPrinted = FALSE
    /\ stalled = FALSE
    /\ lastSend = <<0, 0, 0>>
    /\ writeAfterRead = FALSE
    /\ stale = <<>>
    /\ externalLevel = "none"
    /\ thread_list = <<>>
    /\ listAlive = FALSE
    /\ frames = 0
    /\ sleeps = 0
    /\ framesAfterInt = 0
    /\ sleepsAfterInt = 0
    /\ listFreeCalls = 0
    /\ tout = <<>>
    /\ \/ /\ pc = "idle"
          /\ args \in RelayArgs
          /\ budget = MaxWrites
          /\ tpc = "none"
          /\ interval = 1000
       \/ /\ pc = "none"
          /\ args = ""
          /\ budget = 0
          /\ tpc = "idle"
          /\ interval \in Intervals

NextLive ==
    \/ LogStep
    \/ TopStep
    \/ SetInterrupt
    \/ \E size \in LevelPayloadSizes : Emit(size)

SpecLive ==
    InitLive /\ [][NextLive]_vars /\ WF_vars(LogStep) /\ WF_vars(TopStep)

\* ---------------------------------------------------- sessions specification
\* The session loop calls cli_command_log again after it has returned: a new
\* argument, a new cancellation token; the bytes the freed ring still held
\* are remembered in stale.
LogDispatchAgain ==
    /\ pc = "done"
    /\ pc' = "idle"
    /\ args' \in RelayArgs
    /\ stale' = RunsConcat(stale, IF addHandlerCalls > 0 THEN ring ELSE <<>>)
    /\ interrupt' = FALSE
    /\ restore_log_level' = FALSE
    /\ buffer' = <<>>
    /\ ret' = 0
    /\ out' = <<>>
    /\ accepted' = <<>>
    /\ regStart' = 0
    /\ regEnd' = 0
    /\ recvAfterInt' = 0
    /\ setLevelCalls' = 0
    /\ addHandlerCalls' = 0
    /\ removeHandlerCalls' = 0
    /\ freeCalls' = 0
    /\ interfered' = FALSE
    /\ helpPrinted' = FALSE
    /\ lastSend' = <<0, 0, 0>>
    /\ writeAfterRead' = FALSE
    /\ externalLevel' = "none"
    /\ UNCHANGED <<topVars, helpVars, level, previous_level, registered,
                   ringAlive, ringCap, ring, budget, emitted, level0, stalled>>

NextSessions ==
    \/ LogStep
    \/ SetInterrupt
    \/ \E size \in LevelPayloadSizes : Emit(size)
    \/ LogDispatchAgain

SpecSessions == InitRelay /\ [][NextSessions]_vars

\* ------------------------------------------------------ relay: properties
\* stream position of the last byte emitted while the sink was registered
SinkEnd == IF registered THEN emitted ELSE regEnd

\* number of bytes emitted while the sink was registered
SinkSent == IF addHandlerCalls = 0 THEN 0 ELSE SinkEnd - regStart

\* the bytes a receive has removed and cli_write has not yet written
Pending == IF pc = "write" THEN RunsTake(buffer, ret) ELSE <<>>

\* C1: once the cancellation token is set the relay loop starts at most one
\* more furi_stream_buffer_receive, and when cli_command_log has left the
\* loop (and when it has returned) the session's sink has been removed.
C1_Cancellation ==
    /\ recvAfterInt <= 1
    /\ (addHandlerCalls > 0 /\ pc \in {"restore", "free", "done"})
          => (~registered /\ removeHandlerCalls = 1)
    /\ (pc \in {"remove", "restore", "free"}) => interrupt

C1_Witness ==
    /\ pc = "done"
    /\ recvAfterInt = 1
    /\ removeHandlerCalls = 1
    /\ budget = 0

\* C2: when the bytes emitted to the sink are at most the ring's capacity,
\* every one of them is accepted, and the bytes written to the output,
\* followed by those read and not yet written and those still in the ring,
\* are exactly the emitted bytes in their order: none lost, none twice.
C2_Lossless ==
    (addHandlerCalls > 0 /\ ringAlive /\ SinkSent <= CLI_COMMAND_LOG_RING_SIZE)
       => /\ accepted = RunsAppend(<<>>, <<regStart + 1, SinkEnd>>)
          /\ RunsConcat(RunsConcat(out, Pending), ring) = accepted
          /\ ret <= CLI_COMMAND_LOG_BUFFER_SIZE

C2_Witness ==
    /\ pc = "loop"
    /\ ring = <<>>
    /\ SinkSent = CLI_COMMAND_LOG_RING_SIZE
    /\ out = << <<regStart + 1, regStart + CLI_COMMAND_LOG_RING_SIZE>> >>

\* C3 as stated: when more than the capacity is emitted to the sink, at most
\* the capacity is ever read and the bytes read are one contiguous window.
C3_Original ==
    (SinkSent > CLI_COMMAND_LOG_RING_SIZE)
       => /\ RunsLen(out) <= CLI_COMMAND_LOG_RING_SIZE
          /\ Len(out) <= 1

\* C3 amended: the ring never holds more than its capacity and the bytes
\* read are in emission order in every interleaving; when every record was
\* sent before a read removed a byte, at most the capacity is read and the
\* bytes read are a prefix of the stream emitted to the sink.
C3_Truncation ==
    /\ RunsLen(ring) <= CLI_COMMAND_LOG_RING_SIZE
    /\ RunsOrdered(RunsConcat(out, Pending))
    /\ ~writeAfterRead
          => /\ RunsLen(RunsConcat(out, Pending)) <= CLI_COMMAND_LOG_RING_SIZE
             /\ out \in {<<>>, << <<regStart + 1, regStart + RunsLen(out)>> >>}
             /\ accepted = RunsAppend(<<>>,
                   <<regStart + 1, regStart + Min(SinkSent, CLI_COMMAND_LOG_RING_SIZE)>>)

C3_Witness ==
    /\ SinkSent > CLI_COMMAND_LOG_RING_SIZE
    /\ ~writeAfterRead
    /\ ring = <<>>
    /\ RunsLen(out) = CLI_COMMAND_LOG_RING_SIZE

\* C4: a session started with a level name, with no other party setting the
\* level, leaves the global level as it was read at entry: the remembered
\* level is the one before the override, and it is in force after the return.
C4_LevelRestore ==
    /\ (pc # "idle" /\ ~interfered) => previous_level = level0
    /\ (pc = "done" /\ restore_log_level /\ ~interfered) => level = level0

C4_Witness ==
    /\ pc = "done"
    /\ args = "debug"
    /\ level0 = "FuriLogLevelInfo"
    /\ ~interfered
    /\ setLevelCalls = 2
    /\ level = "FuriLogLevelInfo"

\* C5: with an argument that is no level name the handler never sets the
\* level, never registers a sink and never enters the relay loop, whatever
\* the token; it returns with the help printed and the level as it was.
C5_InvalidLevel ==
    (args # "" /\ ~furi_log_level_from_string_ok(args))
       => /\ setLevelCalls = 0
          /\ addHandlerCalls = 0
          /\ ~registered
          /\ pc \in {"idle", "parse", "done"}
          /\ pc = "done" => /\ helpPrinted
                            /\ ~ringAlive
                            /\ ~interfered => level = level0

C5_Witness ==
    /\ pc = "done"
    /\ args = "bogus"
    /\ helpPrinted
    /\ interrupt
    /\ ~interfered
    /\ level = level0

\* C9: the sink callback never waits: a send accepts at most what fits
\* (the smaller of the record's size and the free space) and returns; with
\* a consumer that never reads the producers still are not suspended.
C9_NonBlocking ==
    /\ ~stalled
    /\ lastSend[3] <= Min(lastSend[1], lastSend[2])
    /\ lastSend[3] >= 0

C9_Witness ==
    /\ ~stalled
    /\ out = <<>>
    /\ pc = "loop"
    /\ budget = 0
    /\ lastSend[3] < lastSend[1]
    /\ RunsLen(ring) = CLI_COMMAND_LOG_RING_SIZE

\* C10: the bytes written to the output are bytes emitted while the sink
\* was registered, in emission order and none twice; what has been written,
\* plus what the current iteration read, plus what the ring holds, is what
\* the ring accepted, so every iteration writes exactly the bytes it read.
C10_Ordering ==
    /\ RunsOrdered(out)
    /\ RunsOrdered(accepted)
    /\ RunsWithin(out, regStart + 1, SinkEnd)
    /\ RunsLen(Pending) = (IF pc = "write" THEN ret ELSE 0)
    /\ ringAlive => RunsConcat(RunsConcat(out, Pending), ring) = accepted

C10_Witness ==
    /\ pc = "loop"
    /\ regStart > 0
    /\ RunsLen(out) > CLI_COMMAND_LOG_BUFFER_SIZE
    /\ out[1][1] = regStart + 1
    /\ ring # <<>>

\* C12: after the loop cli_command_log removes the sink, then writes the
\* level back (only after an override), then frees the ring: the sink is
\* never registered on a freed ring, and no byte emitted after the sink's
\* removal is accepted by the ring, read, or written to the output.
C12_TeardownOrder ==
    /\ registered => ringAlive
    /\ pc = "remove" => /\ registered
                        /\ removeHandlerCalls = 0
                        /\ freeCalls = 0
    /\ pc = "restore" => /\ ~registered
                         /\ removeHandlerCalls = 1
                         /\ ringAlive
                         /\ freeCalls = 0
                         /\ setLevelCalls = (IF restore_log_level THEN 1 ELSE 0)
    /\ pc = "free" => /\ ~registered
                      /\ removeHandlerCalls = 1
                      /\ ringAlive
                      /\ freeCalls = 0
                      /\ setLevelCalls = (IF restore_log_level THEN 2 ELSE 0)
    /\ (addHandlerCalls > 0 /\ ~registered)
          => /\ RunsWithin(accepted, regStart + 1, regEnd)
             /\ RunsWithin(ring, regStart + 1, regEnd)
             /\ RunsWithin(out, regStart + 1, regEnd)

C12_Witness ==
    /\ pc = "done"
    /\ restore_log_level
    /\ setLevelCalls = 2
    /\ removeHandlerCalls = 1
    /\ freeCalls = 1
    /\ accepted # <<>>
    /\ emitted > regEnd

\* C13: the loop is left on the token with no last read: when the handler
\* is past the loop, what the ring accepted is what was written followed by
\* what the ring still holds, at most one receive was started after the
\* token, and nothing read is left unwritten; the bytes the ring holds
\* then are freed with it and never reach the output.
C13_NoFinalDrain ==
    (addHandlerCalls > 0 /\ pc \in {"remove", "restore", "free", "done"})
       => /\ accepted = RunsConcat(out, ring)
          /\ RunsLen(accepted) = RunsLen(out) + RunsLen(ring)
          /\ Pending = <<>>
          /\ recvAfterInt <= 1

C13_Witness ==
    /\ pc = "done"
    /\ ~ringAlive
    /\ ring # <<>>
    /\ RunsLen(out) < RunsLen(accepted)
    /\ RunsWithin(ring, regStart + 1, regEnd)

\* ------------------------------------------------------ level: properties
\* C14: a session started without a level argument never writes the global
\* level, so a level another party set during it stays in force; a session
\* started with a level name writes the remembered level back at exit
\* whatever the level is then, so a level another party set during it is
\* overwritten.
C14_RestoreUnguarded ==
    /\ [](args = "" => /\ setLevelCalls = 0
                       /\ ~restore_log_level
                       /\ externalLevel # "none" => level = externalLevel)
    /\ [][/\ (args = "" /\ pc' # pc) => level' = level
          /\ (pc = "restore" /\ pc' = "free" /\ restore_log_level)
                => level' = furi_log_set_level(previous_level)
          /\ (pc = "restore" /\ pc' = "free" /\ ~restore_log_level)
                => level' = level]_vars

C14_Witness ==
    /\ pc = "free"
    /\ restore_log_level
    /\ externalLevel = "FuriLogLevelTrace"
    /\ previous_level = "FuriLogLevelWarn"
    /\ level = "FuriLogLevelWarn"

\* C19: on every exit path of cli_command_log the ring allocated at entry is
\* freed exactly once, the sinks registered after the return are as many as
\* before the call, and a session never has more than one sink registered.
C19_ResourceBalance ==
    /\ freeCalls <= 1
    /\ addHandlerCalls <= 1
    /\ removeHandlerCalls <= addHandlerCalls
    /\ registered <=> (addHandlerCalls - removeHandlerCalls = 1)
    /\ pc \notin {"idle", "done"} => (ringAlive /\ freeCalls = 0)
    /\ ringAlive <=> (pc \notin {"idle", "done"})
    /\ pc = "done" => /\ freeCalls = 1
                      /\ addHandlerCalls = removeHandlerCalls
                      /\ ~registered

C19_Witness ==
    /\ pc = "done"
    /\ args = ""
    /\ addHandlerCalls = 1
    /\ removeHandlerCalls = 1
    /\ freeCalls = 1
    /\ ~ringAlive
    /\ ~registered

\* C22: the ring holds between 0 and CLI_COMMAND_LOG_RING_SIZE bytes in
\* every state; a loop iteration removes at most CLI_COMMAND_LOG_BUFFER_SIZE
\* bytes; a receive that times out returns 0, leaves the ring as it is, and
\* the cli_write that follows writes nothing and goes back to the test of
\* the token.
C22_Occupancy ==
    /\ [](/\ RunsLen(ring) >= 0
          /\ RunsLen(ring) <= CLI_COMMAND_LOG_RING_SIZE
          /\ ret >= 0
          /\ ret <= CLI_COMMAND_LOG_BUFFER_SIZE
          /\ RunsLen(buffer) <= CLI_COMMAND_LOG_BUFFER_SIZE)
    /\ [][/\ RunsLen(ring') >= RunsLen(ring) - CLI_COMMAND_LOG_BUFFER_SIZE
          /\ RunsLen(ring') < RunsLen(ring) => (pc = "recv" /\ pc' = "write")
          /\ (pc = "recv" /\ pc' = "write" /\ ring = <<>>)
                => (ret' = 0 /\ ring' = ring /\ out' = out /\ buffer' = buffer)
          /\ (pc = "recv" /\ pc' = "write" /\ ring # <<>>)
                => (ret' > 0 /\ RunsLen(ring') = RunsLen(ring) - ret')
          /\ (pc = "write" /\ pc' # pc)
                => /\ pc' = "loop"
                   /\ ring' = ring
                   /\ RunsLen(out') = RunsLen(out) + ret]_vars

C22_Witness ==
    /\ pc = "loop"
    /\ ret = 0
    /\ ring = <<>>
    /\ RunsLen(buffer) = CLI_COMMAND_LOG_BUFFER_SIZE
    /\ RunsLen(out) = CLI_COMMAND_LOG_RING_SIZE
    /\ ~interrupt

\* --------------------------------------------------- sessions: properties
\* C17: a session's output, and what its ring accepted and holds, are bytes
\* emitted between its furi_log_add_handler and its furi_log_remove_handler;
\* bytes emitted with no sink registered are in none of them, the ring is
\* empty when the sink is added, and bytes an earlier session left
\* undelivered were emitted before this session's sink was added.
C17_Isolation ==
    /\ RunsWithin(out, regStart + 1, SinkEnd)
    /\ RunsWithin(accepted, regStart + 1, SinkEnd)
    /\ ringAlive => RunsWithin(ring, regStart + 1, SinkEnd)
    /\ addHandlerCalls = 0 => (out = <<>> /\ accepted = <<>>)
    /\ pc \in {"parse", "add"} => (ringAlive /\ ring = <<>>)
    /\ addHandlerCalls > 0 => RunsWithin(stale, 1, regStart)
    /\ addHandlerCalls <= 1

C17_Witness ==
    /\ stale # <<>>
    /\ pc = "done"
    /\ out # <<>>
    /\ out[1][1] > stale[1][2]
    /\ ring = <<>>

\* ---------------------------------------------------- monitor: properties
\* C6: with interval = 0 cli_command_top has rendered exactly one frame when
\* it returns, whatever the cancellation token was at entry or during the call.
C6_RunOnce ==
    (tpc = "done" /\ interval = 0) => frames = 1

\* C15: with a positive interval the token is tested only at the top of the
\* loop: once it is set, at most the frame whose test came before is
\* rendered, at most one sleep is taken, the test that follows leaves the
\* loop, and the loop is left in no other way.
C15_Latency ==
    interval > 0
       => /\ framesAfterInt <= 1
          /\ sleepsAfterInt <= 1
          /\ sleepsAfterInt <= sleeps
          /\ framesAfterInt <= frames
          /\ (interrupt /\ tpc = "frame") => framesAfterInt = 0
          /\ tpc \in {"free", "show", "done"} => interrupt

C15_Witness ==
    /\ tpc = "done"
    /\ interval > 0
    /\ frames = 1
    /\ framesAfterInt = 1
    /\ sleepsAfterInt = 1

\* the places of the output where a frame's cursor-to-origin is
TopFrameStarts == {i \in DOMAIN tout : tout[i][1] = "origin"}

\* the end of the frame that starts at place i: the place before the next
\* frame's first item, or the last row printed
TopFrameEnd(i) ==
    LET later == {j \in DOMAIN tout : j > i /\ tout[j][1] \in {"clear", "origin", "show"}}
    IN IF later = {} THEN Len(tout)
       ELSE (CHOOSE j \in later : \A k \in later : j <= k) - 1

\* C16: every frame rendered with interval > 0 emits, in this order, clear
\* screen, cursor to origin, the statistics line, the heap line, the column
\* header, and one row per thread of that iteration's snapshot in its order.
C16_FrameOrder ==
    interval > 0
       => /\ Cardinality(TopFrameStarts) = frames
          /\ \A i \in TopFrameStarts :
                /\ i > 1
                /\ \/ tout[i - 1][1] = "clear"
                   \/ (i > 2 /\ tout[i - 1][1] = "hide" /\ tout[i - 2][1] = "clear")
                /\ TopFrameEnd(i) >= i + 3
                /\ tout[i + 1][1] = "stats"
                /\ tout[i + 2][1] = "heap"
                /\ tout[i + 3][1] = "header"
                /\ tout[i + 1][2] = TopFrameEnd(i) - (i + 3)
                /\ \A k \in (i + 4)..TopFrameEnd(i) : tout[k][1] = "row"
          /\ \A i \in TopFrameStarts :
                TopFrameEnd(i) = Len(tout) \/ tout[TopFrameEnd(i) + 1][1] = "show"
                   => SubSeq(tout, i + 4, TopFrameEnd(i))
                         = [k \in 1..Len(thread_list) |-> <<"row", thread_list[k]>>]

\* the output holds the item
TopEmitted(item) == \E i \in DOMAIN tout : tout[i][1] = item

\* C20: cli_command_top repeats frames only when interval > 0; for interval
\* = 0 and for a negative interval the loop is left after the first frame
\* without a sleep; a negative interval emits the clear-screen, hide-cursor,
\* cursor-to-origin and show-cursor sequences and interval = 0 none of them.
C20_IntervalSign ==
    /\ (frames > 1 \/ sleeps > 0) => interval > 0
    /\ (interval <= 0 /\ tpc \in {"free", "show", "done"})
          => (frames = 1 /\ sleeps = 0)
    /\ (interval < 0 /\ tpc = "done")
          => /\ TopEmitted("clear")
             /\ TopEmitted("hide")
             /\ TopEmitted("origin")
             /\ TopEmitted("show")
    /\ interval = 0
          => /\ ~TopEmitted("clear")
             /\ ~TopEmitted("hide")
             /\ ~TopEmitted("origin")
             /\ ~TopEmitted("show")

\* the places of the output where the item is
TopPlaces(item) == {i \in DOMAIN tout : tout[i][1] = item}

\* C21: for every interval that is not 0, cli_command_top hides the cursor
\* exactly once, before the loop, and shows it exactly once, after the
\* loop, on every way out of the loop, so it has shown the cursor when it
\* returns; the thread list allocated before the loop is freed exactly once.
C21_CursorPairing ==
    /\ interval # 0
          => /\ tpc # "idle" => (TopPlaces("hide") = {2} /\ tout[1][1] = "clear")
             /\ tpc = "idle" => TopPlaces("hide") = {}
             /\ TopPlaces("show") = (IF tpc = "done" THEN {Len(tout)} ELSE {})
    /\ listFreeCalls <= 1
    /\ listAlive <=> tpc \in {"loop", "frame", "after", "free"}
    /\ tpc \in {"loop", "frame", "after", "free"} => listFreeCalls = 0
    /\ tpc \in {"show", "done"} => listFreeCalls = 1

C21_Witness ==
    /\ tpc = "done"
    /\ interval < 0
    /\ frames = 0
    /\ tout = << <<"clear", 0>>, <<"hide", 0>>, <<"show", 0>> >>
    /\ listFreeCalls = 1
    /\ ~listAlive

\* ------------------------------------------------------- help: properties
\* the ceiling of v / HelpColumns
HelpCeiling(v) == (v + HelpColumns - 1) \div HelpColumns

\* the labels printed in column c
HelpLabels(c) == {i \in DOMAIN printed : printed[i][2] = c}

\* C7: the rows per column cli_command_help computes, V/3 + V%3, are the
\* ceiling of V/3 for the count V of visible commands.
C7_Ceiling ==
    hpc \in {"print", "done"} => commands_per_column = HelpCeiling(commands_count)

\* C8: with 7 visible commands there are 3 rows per column, the cursors start
\* at positions 0, 3 and 6, 3 rows are rendered, the first two columns each
\* consume 3 positions, and the third column prints exactly 1 label.
C8_SevenVisible ==
    (hpc = "done" /\ commands_count = 7)
       => /\ commands_per_column = 3
          /\ starts = [c \in 0..(HelpColumns - 1) |-> 3 * c]
          /\ row = 3
          /\ iterators[0] - starts[0] = 3
          /\ iterators[1] - starts[1] = 3
          /\ Cardinality(HelpLabels(2)) = 1

\* C18: for every command sequence and every placement of hidden entries,
\* cli_command_help prints no hidden command, no command twice, and every
\* command that is not hidden.
C18_Complete ==
    hpc = "done"
       => /\ \A i \in DOMAIN printed : ~HelpHidden(printed[i][3])
          /\ \A i, j \in DOMAIN printed :
                printed[i][3] = printed[j][3] => i = j
          /\ \A p \in 0..(Len(commands) - 1) :
                ~HelpHidden(p) => \E i \in DOMAIN printed : printed[i][3] = p

\* ---------------------------------------------------- liveness: properties
\* C11: once the cancellation token is set, cli_command_log reaches its end
\* with the sink removed, the level written back when it was overridden and
\* the ring freed, and cli_command_top with a positive interval returns;
\* the receive timeout and the sleep end, so this holds with no record emitted.
C11_Termination ==
    /\ (pc # "none" /\ interrupt)
          ~> /\ pc = "done"
             /\ ~registered
             /\ ~ringAlive
             /\ addHandlerCalls = removeHandlerCalls
             /\ restore_log_level => level = furi_log_set_level(previous_level)
    /\ (tpc # "none" /\ interval > 0 /\ interrupt)
          ~> (tpc = "done" /\ ~listAlive)

C11_Witness ==
    /\ pc = "done"
    /\ interrupt
    /\ addHandlerCalls = 1
    /\ recvAfterInt = 1
    /\ emitted = 0
    /\ budget = MaxWrites
    /\ ~ringAlive

====
